---- MODULE Spec2Model ----
(***************************************************************************)
(* Model of hexaeight_mcp_client/git_mcp_tool.py: the GitMCPTool client,   *)
(* its retry loop _send_encrypted_git_operation, the public operations     *)
(* that update current_repository, current_branch and session_history,     *)
(* safe_code_modification and initialize; and of the console entry points  *)
(* of cli/main.py and the slide presentation of                            *)
(* cli/concepts_presentation.py.                                           *)
(*                                                                         *)
(* Python None and the empty string are both written "" (the code only     *)
(* tests them with `x or default` / `if not x`).  A JSON key that is       *)
(* missing from a dictionary is written "absent" (isSuccessful) or "NONE"  *)
(* (errorCode).  Timestamps of history entries are left out.               *)
(***************************************************************************)
EXTENDS Integers, Sequences, FiniteSets, TLC

VARIABLES
    \* ---- GitMCPTool fields ----
    current_repository,         \* self.current_repository
    current_branch,             \* self.current_branch
    session_history,            \* self.session_history
    agent_recreation_callback,  \* "set" / "unset": attribute present and truthy
    agent,                      \* self.agent: the attributes initialize looks at
    git_server_agent_name,      \* self.git_server_agent_name, as characters
    agent_name,                 \* self.agent_name
    \* ---- the public method in progress ----
    method,                     \* name of the public method, "none" when idle
    args,                       \* its arguments
    calls,                      \* number of public calls started in the session
    session_id,                 \* commit_files: upload session in use, "" if none
    returned,                   \* what the last public method returned
    safe,                       \* locals of the safe_code_modification in progress
    \* ---- locals of _send_encrypted_git_operation ----
    pc,                         \* position in the call
    operation,                  \* the operation dictionary
    max_retries,
    attempt,
    consecutive_failures,
    last_decryption_failed,
    encrypted_operation,        \* 0 is None, n > 0 the n-th ciphertext produced
    delay,
    response,                   \* what the current attempt received
    result,                     \* the value returned
    \* ---- observation of the call (not program state) ----
    encCalls,                   \* ciphertexts _encrypt_git_operation has returned
    sent,                       \* ciphertexts POSTed to /api/operations, in order
    waits,                      \* backoff sleeps performed, in order
    prevDF,                     \* the last failed attempt failed with DECRYPTION_FAILED
    encAtFailure,               \* encCalls when the last failed attempt failed
    dfRun,                      \* DECRYPTION_FAILED attempts in a row
    cbInvoked,                  \* agent_recreation_callback while handling
                                \* `response`: "no", "completed" or "raised"
    contacted,                  \* what the public call has used so far: the
                                \* agent's encryption and the server endpoints
    \* ---- cli/main.py: one run of a console entry point ----
    argv,                       \* sys.argv[1:]
    entry_point,                \* the entry point run: "main", "hexaeight_start"
    cli_pc,                     \* "shell", "handler", "returned" or "exited"
    handlers_run,               \* the handlers whose run() was called, in order
    handler_outcome,            \* how run() ended
    exit_status,                \* status given to sys.exit, -1 if it was not called
    \* ---- cli/concepts_presentation.py: one ConceptsPresentationCLI.run ----
    run_args,                   \* args
    pres_pc,                    \* position in run
    slide,                      \* i, the number of the slide on show
    shown,                      \* slides printed, in order
    prompts,                    \* calls of input()
    user_input,                 \* what the last input() returned, as characters
    completion                  \* the completion message was printed

toolVars == <<current_repository, current_branch, session_history,
              agent_recreation_callback, agent, git_server_agent_name,
              agent_name>>
callerVars == <<method, args, calls, session_id, returned, safe>>
sendVars == <<pc, operation, max_retries, attempt, consecutive_failures,
              last_decryption_failed, encrypted_operation, delay, response,
              result>>
ghostVars == <<encCalls, sent, waits, prevDF, encAtFailure, dfRun,
               cbInvoked, contacted>>
mainVars == <<argv, entry_point, cli_pc, handlers_run, handler_outcome,
              exit_status>>
presentationVars == <<run_args, pres_pc, slide, shown, prompts, user_input,
                      completion>>
cliVars == <<mainVars, presentationVars>>
vars == <<toolVars, callerVars, sendVars, ghostVars, cliVars>>

----------------------------------------------------------------------------
(* Bounds of the model *)

\* public operations started in one session
MaxCalls == 2
\* retries the server forces on one operation of a session of public calls
MaxTransient == 1

----------------------------------------------------------------------------
(* Constants of _send_encrypted_git_operation *)

retryable_operations == {"commit", "create", "branch", "checkout", "read", "list"}

retryable_error_codes ==
    {"DECRYPTION_FAILED", "CONNECTION_FAILED", "TIMEOUT", "INTERNAL_ERROR",
     "REPOSITORY_LOCKED"}

non_retryable_error_codes ==
    {"FILE_NOT_FOUND", "REPOSITORY_NOT_FOUND", "ACCESS_DENIED", "INVALID_BRANCH",
     "CONFLICT"}

base_delay == 1
max_delay == 60

\* Operation types the tool's public methods build
OperationTypes ==
    {"create", "commit", "branch", "checkout", "read", "revert", "history",
     "file-history", "diff", "show", "merge"}

\* ... and "list", which only the retry tables name
SendOperationTypes == OperationTypes \cup {"list"}

\* errorCode values of a server answer; "NONE" is a body without the key
ErrorCodes ==
    retryable_error_codes \cup non_retryable_error_codes
        \cup {"REPOSITORY_EXISTS", "NONE"}

Min(a, b) == IF a <= b THEN a ELSE b

RECURSIVE Pow2(_)
Pow2(n) == IF n = 0 THEN 1 ELSE 2 * Pow2(n - 1)

----------------------------------------------------------------------------
(* Server answers and returned dictionaries *)

NoResponse ==
    [kind |-> "none", status |-> 0, json |-> "none",
     isSuccessful |-> "absent", errorCode |-> "NONE"]

\* An HTTP answer: status 200 or not (500), body a JSON object or not JSON
HttpResponse(st, js, ok, code) ==
    [kind |-> "http", status |-> st, json |-> js,
     isSuccessful |-> ok, errorCode |-> code]

\* aiohttp raised (no answer), or the body was JSON but not an object
ExceptionResponse ==
    [kind |-> "exception", status |-> 0, json |-> "none",
     isSuccessful |-> "absent", errorCode |-> "NONE"]

Responses ==
    {HttpResponse(st, "object", ok, code) :
        st \in {200, 500}, ok \in {"true", "false", "absent"}, code \in ErrorCodes}
    \cup {HttpResponse(st, "invalid", "absent", "NONE") : st \in {200, 500}}
    \cup {ExceptionResponse}

NoResult == [isSuccessful |-> "absent", errorCode |-> "NONE", origin |-> "none"]

Result(ok, code, origin) ==
    [isSuccessful |-> ok, errorCode |-> code, origin |-> origin]

CheckSuccessDefaultTrue(res) == res.isSuccessful \in {"true", "absent"}

\* _check_success: result.get("isSuccessful") == True
_check_success(res) == res.isSuccessful = "true"

\* dict.get("errorCode", "UNKNOWN")
ErrorCodeOf(code) == IF code = "NONE" THEN "UNKNOWN" ELSE code

\* error_result of a non-200 answer: the HTTP failure updated with the body
ErrorResult(r) ==
    IF r.json = "object"
    THEN Result(IF r.isSuccessful = "absent" THEN "false" ELSE r.isSuccessful,
                r.errorCode, "http")
    ELSE Result("false", "NONE", "http")

\* the parsed body of a 200 answer
ParsedResult(r) == Result(r.isSuccessful, r.errorCode, "server")

\* result.get("isSuccessful", True) is truthy
IsSuccessfulOrDefault(r) == r.isSuccessful \in {"true", "absent"}

----------------------------------------------------------------------------
(* The retry tables *)

MaxRetriesForWrong(operation_type) ==
    IF operation_type \in retryable_operations THEN 10 ELSE 1

MaxRetriesForReadsOnly(operation_type) ==
    IF operation_type \in {"read", "list"} THEN 3 ELSE 1

MaxRetriesFor(operation_type) ==
    IF operation_type \in {"read", "list"} THEN 3
    ELSE IF operation_type \in retryable_operations THEN 10
    ELSE 1

BackoffDelayUncapped(a) == base_delay * Pow2(a)

\* delay = min(base_delay * (2 ** attempt), max_delay)
BackoffDelay(a) == Min(base_delay * Pow2(a), max_delay)

ShouldReencrypt(a, ldf, operation_type) ==
    a = 0 \/ ldf \/ operation_type \in retryable_operations

EncryptOnce(prev, fresh, a, ldf, operation_type) ==
    IF a = 0 THEN fresh ELSE prev

\* The ciphertext an attempt posts: `prev` is what the previous attempt held,
\* `fresh` what the encryption of this attempt produced (0 when it failed).
PayloadForAttempt(prev, fresh, a, ldf, operation_type) ==
    IF ShouldReencrypt(a, ldf, operation_type) THEN fresh ELSE 0

ShouldRetryHttpAnyCode(operation_type, error_code, a, maxr) ==
    /\ operation_type \in retryable_operations
    /\ a < maxr - 1

\* should_retry of the non-200 branch
ShouldRetryHttp(operation_type, error_code, a, maxr) ==
    /\ operation_type \in retryable_operations
    /\ error_code \in retryable_error_codes
    /\ a < maxr - 1

ShouldRetryResultOffByOne(operation_type, error_code, a, maxr) ==
    /\ operation_type \in retryable_operations
    /\ error_code \in retryable_error_codes
    /\ error_code \notin non_retryable_error_codes
    /\ a < maxr - 2

\* should_retry of the 200 branch
ShouldRetryResult(operation_type, error_code, a, maxr) ==
    /\ operation_type \in retryable_operations
    /\ error_code \in retryable_error_codes
    /\ error_code \notin non_retryable_error_codes
    /\ a < maxr - 1

\* retry test of the invalid-JSON and exception branches
ShouldRetryException(operation_type, a, maxr) ==
    operation_type \in retryable_operations /\ a < maxr - 1

----------------------------------------------------------------------------
(* One attempt of the loop: what the answer `r` leads to.  cbOK tells       *)
(* whether agent_recreation_callback, if it is invoked, completes.          *)

\* the non-200 branch
HttpErrorOutcome(r, operation_type, a, maxr, cf, cbSet, cbOK) ==
    LET error_result == ErrorResult(r)
        error_code == ErrorCodeOf(error_result.errorCode)
        df == error_code = "DECRYPTION_FAILED"
    IN  [returns |-> ~ShouldRetryHttp(operation_type, error_code, a, maxr),
         result |-> error_result,
         cf |-> IF df THEN cf + 1 ELSE cf,
         ldf |-> df,
         invoked |-> FALSE,
         code |-> error_code]

\* the 200 branch with a body that parsed
ResultOutcome(r, operation_type, a, maxr, cf, cbSet, cbOK) ==
    LET res == ParsedResult(r)
        error_code == ErrorCodeOf(res.errorCode)
        df == error_code = "DECRYPTION_FAILED"
        invoke == df /\ cf + 1 >= 2 /\ cbSet
    IN  IF IsSuccessfulOrDefault(r)
        THEN [returns |-> TRUE, result |-> res, cf |-> cf, ldf |-> FALSE,
              invoked |-> FALSE, code |-> "SUCCESS"]
        ELSE IF ~ShouldRetryResult(operation_type, error_code, a, maxr)
        THEN [returns |-> TRUE, result |-> res, cf |-> cf, ldf |-> FALSE,
              invoked |-> FALSE, code |-> error_code]
        ELSE [returns |-> FALSE, result |-> res,
              cf |-> IF df THEN (IF invoke /\ cbOK THEN 0 ELSE cf + 1) ELSE 0,
              ldf |-> df,
              invoked |-> invoke,
              code |-> error_code]

\* the 200 branch with a body that is not JSON
JsonErrorOutcome(r, operation_type, a, maxr, cf, cbSet, cbOK) ==
    [returns |-> ~ShouldRetryException(operation_type, a, maxr),
     result |-> Result("false", "NONE", "json"),
     cf |-> cf, ldf |-> FALSE, invoked |-> FALSE, code |-> "JSON"]

\* the outer except branch
ExceptionOutcome(r, operation_type, a, maxr, cf, cbSet, cbOK) ==
    [returns |-> ~ShouldRetryException(operation_type, a, maxr),
     result |-> Result("false", "NONE", "exception"),
     cf |-> cf, ldf |-> FALSE, invoked |-> FALSE, code |-> "EXCEPTION"]

AttemptOutcome(r, operation_type, a, maxr, cf, cbSet, cbOK) ==
    IF r.kind = "exception"
    THEN ExceptionOutcome(r, operation_type, a, maxr, cf, cbSet, cbOK)
    ELSE IF r.status # 200
    THEN HttpErrorOutcome(r, operation_type, a, maxr, cf, cbSet, cbOK)
    ELSE IF r.json = "invalid"
    THEN JsonErrorOutcome(r, operation_type, a, maxr, cf, cbSet, cbOK)
    ELSE ResultOutcome(r, operation_type, a, maxr, cf, cbSet, cbOK)

----------------------------------------------------------------------------
(* _send_encrypted_git_operation *)

\* entry of the function: the locals set before the loop
BeginSend(op) ==
    /\ operation' = op
    /\ max_retries' = MaxRetriesFor(op.Operation)
    /\ attempt' = 0
    /\ consecutive_failures' = 0
    /\ last_decryption_failed' = FALSE
    /\ encrypted_operation' = 0
    /\ delay' = 0
    /\ response' = NoResponse
    /\ result' = NoResult
    /\ encCalls' = 0
    /\ sent' = <<>>
    /\ waits' = <<>>
    /\ prevDF' = FALSE
    /\ encAtFailure' = 0
    /\ dfRun' = 0
    /\ cbInvoked' = "no"
    /\ pc' = "attempt"

\* Top of a loop iteration up to the POST: the encryption of the operation,
\* tried up to three times.  encOK: one of the tries returns a
\* ciphertext (every ciphertext the agent returns is a new one, numbered in
\* the order of production); otherwise all of them raise.
EncryptOperation ==
    /\ pc = "attempt"
    /\ \E encOK \in BOOLEAN :
        LET reenc == ShouldReencrypt(attempt, last_decryption_failed,
                                    operation.Operation)
            fresh == IF reenc /\ encOK THEN encCalls + 1 ELSE 0
            payload == PayloadForAttempt(encrypted_operation, fresh, attempt,
                                         last_decryption_failed,
                                         operation.Operation)
        IN  /\ encCalls' = IF fresh = 0 THEN encCalls ELSE encCalls + 1
            /\ contacted' = IF reenc THEN contacted \cup {"encrypt"} ELSE contacted
            /\ encrypted_operation' = payload
            /\ IF payload = 0
               THEN /\ result' = Result("false", "ENCRYPTION_FAILED", "encryption")
                    /\ pc' = "done"
                    /\ UNCHANGED last_decryption_failed
               ELSE /\ last_decryption_failed' = FALSE
                    /\ pc' = "encrypted"
                    /\ UNCHANGED result
    /\ UNCHANGED <<operation, max_retries, attempt, consecutive_failures, delay,
                   response>>
    /\ UNCHANGED <<sent, waits, prevDF, encAtFailure, dfRun, cbInvoked>>
    /\ UNCHANGED <<toolVars, callerVars>>
    /\ UNCHANGED cliVars

\* The POST to /api/operations and the handling of its answer, up to the
\* return or to the sleep before the next attempt.
PostOperation(R, cap) ==
    /\ pc = "encrypted"
    /\ \E r \in R, cbOK \in BOOLEAN :
        LET o == AttemptOutcome(r, operation.Operation, attempt, max_retries,
                                consecutive_failures,
                                agent_recreation_callback = "set", cbOK)
        IN  /\ o.returns \/ attempt < cap
            /\ sent' = Append(sent, encrypted_operation)
            /\ contacted' = contacted \cup {"api/operations"}
            /\ response' = r
            /\ consecutive_failures' = o.cf
            /\ last_decryption_failed' = o.ldf
            /\ cbInvoked' = IF ~o.invoked THEN "no"
                            ELSE IF cbOK THEN "completed" ELSE "raised"
            /\ IF o.returns
               THEN /\ result' = o.result
                    /\ pc' = "done"
                    /\ UNCHANGED <<delay, prevDF, encAtFailure, dfRun>>
               ELSE /\ delay' = BackoffDelay(attempt)
                    /\ pc' = "sleep"
                    /\ prevDF' = (o.code = "DECRYPTION_FAILED")
                    /\ encAtFailure' = encCalls
                    /\ dfRun' = IF o.code # "DECRYPTION_FAILED" THEN 0
                                ELSE IF o.invoked /\ cbOK THEN 0
                                ELSE dfRun + 1
                    /\ UNCHANGED result
    /\ UNCHANGED <<operation, max_retries, attempt, encrypted_operation>>
    /\ UNCHANGED <<encCalls, waits>>
    /\ UNCHANGED <<toolVars, callerVars>>
    /\ UNCHANGED cliVars

\* await asyncio.sleep(delay); continue
BackoffSleep ==
    /\ pc = "sleep"
    /\ waits' = Append(waits, delay)
    /\ attempt' = attempt + 1
    /\ response' = NoResponse
    /\ cbInvoked' = "no"
    /\ pc' = "attempt"
    /\ UNCHANGED <<operation, max_retries, consecutive_failures,
                   last_decryption_failed, encrypted_operation, delay, result>>
    /\ UNCHANGED <<encCalls, sent, prevDF, encAtFailure, dfRun, contacted>>
    /\ UNCHANGED <<toolVars, callerVars>>
    /\ UNCHANGED cliVars

----------------------------------------------------------------------------
(* The retry loop on its own: _send_encrypted_git_operation called with an  *)
(* operation of any type, against a server that may answer anything.        *)

\* arguments of a public method; "" is an argument left out
Args(repository, branch, branch_name, commit, files) ==
    [repository |-> repository, branch |-> branch, branch_name |-> branch_name,
     commit |-> commit, files |-> files]

NoArgs == Args("", "", "", "", <<>>)

\* no safe_code_modification in progress
NoSafe ==
    [step |-> "none", repo |-> "", original_branch |-> "", branch_name |-> "",
     files |-> <<>>]

NoOperation ==
    [Operation |-> "none", Repository |-> "", Branch |-> "<absent>",
     BranchName |-> "<absent>"]

\* agent instances the tool may be built on, by the attributes initialize
\* looks for: hexaeight_agent ("absent", or what its get_agent_name() does:
\* it returns a name, returns None, or raises),
\* agent_name ("absent" or the name), _clr_agent_config ("absent", or its
\* AgentName, "unnamed" when it has none)
AgentInstances ==
    {[hexaeight_agent |-> "returns", agent_name |-> "absent",
      _clr_agent_config |-> "absent"],
     [hexaeight_agent |-> "returns None", agent_name |-> "absent",
      _clr_agent_config |-> "absent"],
     [hexaeight_agent |-> "raises", agent_name |-> "agent-2",
      _clr_agent_config |-> "absent"],
     [hexaeight_agent |-> "absent", agent_name |-> "agent-2",
      _clr_agent_config |-> "agent-3"],
     [hexaeight_agent |-> "absent", agent_name |-> "absent",
      _clr_agent_config |-> "agent-3"],
     [hexaeight_agent |-> "absent", agent_name |-> "absent",
      _clr_agent_config |-> "unnamed"],
     [hexaeight_agent |-> "absent", agent_name |-> "absent",
      _clr_agent_config |-> "absent"]}

\* the agent instance of the sessions that do not look at its attributes
HexaEightAgent ==
    [hexaeight_agent |-> "returns", agent_name |-> "absent",
     _clr_agent_config |-> "absent"]

\* no console entry point has been started
CliIdle ==
    /\ argv = <<>>
    /\ entry_point = "none"
    /\ cli_pc = "shell"
    /\ handlers_run = <<>>
    /\ handler_outcome = [kind |-> "none", exception |-> "", code |-> -1]
    /\ exit_status = -1
    /\ run_args = <<>>
    /\ pres_pc = "idle"
    /\ slide = 0
    /\ shown = <<>>
    /\ prompts = 0
    /\ user_input = <<>>
    /\ completion = FALSE

IdleLocals ==
    /\ pc = "idle"
    /\ operation = NoOperation
    /\ max_retries = 0
    /\ attempt = 0
    /\ consecutive_failures = 0
    /\ last_decryption_failed = FALSE
    /\ encrypted_operation = 0
    /\ delay = 0
    /\ response = NoResponse
    /\ result = NoResult
    /\ encCalls = 0
    /\ sent = <<>>
    /\ waits = <<>>
    /\ prevDF = FALSE
    /\ encAtFailure = 0
    /\ dfRun = 0
    /\ cbInvoked = "no"

InitMain ==
    /\ current_repository = ""
    /\ current_branch = "main"
    /\ session_history = <<>>
    /\ agent_recreation_callback \in {"set", "unset"}
    /\ agent = HexaEightAgent
    /\ git_server_agent_name = <<>>
    /\ agent_name = ""
    /\ method = "none"
    /\ args = NoArgs
    /\ calls = 0
    /\ session_id = ""
    /\ returned = NoResult
    /\ safe = NoSafe
    /\ contacted = {}
    /\ IdleLocals
    /\ CliIdle

\* GitMCPTool.__init__
Init ==
    /\ current_repository = ""
    /\ current_branch = "master"
    /\ session_history = <<>>
    /\ agent_recreation_callback \in {"set", "unset"}
    /\ agent = HexaEightAgent
    /\ git_server_agent_name = <<>>
    /\ agent_name = ""
    /\ method = "none"
    /\ args = NoArgs
    /\ calls = 0
    /\ session_id = ""
    /\ returned = NoResult
    /\ safe = NoSafe
    /\ contacted = {}
    /\ IdleLocals
    /\ CliIdle

SendCall ==
    /\ pc = "idle"
    /\ \E t \in SendOperationTypes :
        BeginSend([Operation |-> t, Repository |-> "r1", Branch |-> "<absent>",
                   BranchName |-> "<absent>"])
    /\ method' = "_send_encrypted_git_operation"
    /\ contacted' = {}
    /\ UNCHANGED <<args, calls, session_id, returned, safe>>
    /\ UNCHANGED toolVars
    /\ UNCHANGED cliVars

\* the locals are dropped when the function has returned
DropLocals ==
    /\ pc' = "idle"
    /\ operation' = NoOperation
    /\ max_retries' = 0
    /\ attempt' = 0
    /\ consecutive_failures' = 0
    /\ last_decryption_failed' = FALSE
    /\ encrypted_operation' = 0
    /\ delay' = 0
    /\ response' = NoResponse
    /\ result' = NoResult
    /\ encCalls' = 0
    /\ sent' = <<>>
    /\ waits' = <<>>
    /\ prevDF' = FALSE
    /\ encAtFailure' = 0
    /\ dfRun' = 0
    /\ cbInvoked' = "no"

SendReturn ==
    /\ pc = "done"
    /\ method = "_send_encrypted_git_operation"
    /\ DropLocals
    /\ method' = "none"
    /\ contacted' = {}
    /\ UNCHANGED <<args, calls, session_id, returned, safe>>
    /\ UNCHANGED toolVars
    /\ UNCHANGED cliVars

NextSend ==
    \/ SendCall
    \/ EncryptOperation
    \/ PostOperation(Responses, max_retries)
    \/ BackoffSleep
    \/ SendReturn

SpecSend == Init /\ [][NextSend]_vars

----------------------------------------------------------------------------
(* The public methods of GitMCPTool.  Console output is left out.           *)

\* arguments the session is called with; the repository argument is left out
\* (the methods then work on current_repository)
RepositoryNames == {"r1"}
RepositoryArgs == {""}
BranchNames == {"master", "dev"}
BranchArgs == {"", "dev"}
CommitArgs == {"c1"}

\* commit_files: thresholds (bytes)
small_file_limit == 51200
total_inline_limit == 204800

\* self.max_inline_size: the constructor's max_file_size_for_inline, at its
\* default (bytes)
max_inline_size == 1048576

\* file lists given to commit_files, each file by the size of its content
FileLists ==
    {<<0>>, <<small_file_limit>>, <<small_file_limit + 1>>,
     <<max_inline_size + 1>>,
     <<small_file_limit, small_file_limit, small_file_limit, small_file_limit,
       small_file_limit>>}

\* answers of the server in a session of public calls
ToolResponses ==
    {HttpResponse(200, "object", "true", "NONE"),
     HttpResponse(200, "object", "absent", "NONE"),
     HttpResponse(200, "object", "false", "REPOSITORY_EXISTS"),
     HttpResponse(200, "object", "false", "INVALID_BRANCH"),
     HttpResponse(200, "object", "false", "TIMEOUT"),
     HttpResponse(500, "object", "absent", "REPOSITORY_EXISTS"),
     HttpResponse(500, "invalid", "absent", "NONE"),
     ExceptionResponse}

\* `x or default`
Or(x, default) == IF x = "" THEN default ELSE x

Operation(type, repo, branch, branch_name) ==
    [Operation |-> type, Repository |-> repo, Branch |-> branch,
     BranchName |-> branch_name]

\* entry of a method that goes on to _send_encrypted_git_operation
Invoke(m, a, op) ==
    /\ pc = "idle"
    /\ method' = m
    /\ args' = a
    /\ session_id' = ""
    /\ returned' = NoResult
    /\ contacted' = {}
    /\ BeginSend(op)
    /\ UNCHANGED toolVars
    /\ UNCHANGED cliVars

\* a public method called by the user of the tool
Call(m, a, op) ==
    /\ safe.step = "none"
    /\ calls < MaxCalls
    /\ calls' = calls + 1
    /\ UNCHANGED safe
    /\ Invoke(m, a, op)

\* return of a public method: the new fields and the value returned
Return(m, repo, branch, history, value) ==
    /\ pc = "done"
    /\ method = m
    /\ current_repository' = repo
    /\ current_branch' = branch
    /\ session_history' = history
    /\ returned' = value
    /\ method' = "none"
    /\ DropLocals
    /\ UNCHANGED <<agent_recreation_callback, agent, git_server_agent_name,
                   agent_name, args, calls, session_id, safe, contacted>>
    /\ UNCHANGED cliVars

\* ---- create_repository ----
create_repository_call ==
    \E repository_name \in RepositoryNames :
        Call("create_repository", Args(repository_name, "", "", "", <<>>),
             Operation("create", repository_name, "<absent>", "<absent>"))

create_repository_return ==
    IF _check_success(result) \/ result.errorCode = "REPOSITORY_EXISTS"
    THEN Return("create_repository", args.repository, current_branch,
                Append(session_history,
                       [operation |-> "create_repository",
                        repository |-> args.repository,
                        branch |-> current_branch]),
                result)
    ELSE Return("create_repository", current_repository, current_branch,
                session_history, result)

\* ---- commit_files ----
RECURSIVE InlineSize(_)
InlineSize(files) ==
    IF files = <<>> THEN 0
    ELSE (IF Head(files) > small_file_limit THEN 0 ELSE Head(files))
         + InlineSize(Tail(files))

HasLargeFile(files) == \E i \in 1 .. Len(files) : files[i] > small_file_limit

HasContent(files) == \E i \in 1 .. Len(files) : files[i] > 0

NeedsUploadSession(files) ==
    HasLargeFile(files) \/ InlineSize(files) > total_inline_limit

\* file i of the commit goes through _upload_large_file: the commit has an
\* upload session and the file has content
Streamed(files, i, sid) == sid # "" /\ files[i] > 0

\* the locals of _send_encrypted_git_operation are not used on the upload path
BeginComplete(op) ==
    /\ operation' = op
    /\ max_retries' = 0
    /\ attempt' = 0
    /\ consecutive_failures' = 0
    /\ last_decryption_failed' = FALSE
    /\ encrypted_operation' = 0
    /\ delay' = 0
    /\ response' = NoResponse
    /\ result' = NoResult
    /\ encCalls' = 0
    /\ sent' = <<>>
    /\ waits' = <<>>
    /\ prevDF' = FALSE
    /\ encAtFailure' = 0
    /\ dfRun' = 0
    /\ cbInvoked' = "no"
    /\ pc' = "complete"

NoRepositoryNever(repo) == FALSE

\* `if not repo`
NoRepository(repo) == repo = ""

\* commit_files up to the execution of the git operation: the early return,
\* and the upload session (created: _create_upload_session succeeded with a
\* sessionId; uploadOK: every _upload_large_file succeeded)
CommitFiles(files, repository, branch, sessionOK, uploadOK) ==
    LET repo == Or(repository, current_repository)
        target_branch == Or(branch, current_branch)
        created == NeedsUploadSession(files) /\ sessionOK
        uploaded == created /\ (HasContent(files) => uploadOK)
        op == Operation("commit", repo, target_branch, "<absent>")
    IN  /\ pc = "idle"
        /\ args' = Args(repository, branch, "", "", files)
        /\ IF NoRepository(repo)
           THEN /\ method' = "none"
                /\ returned' = Result("false", "NONE", "No repository specified")
                /\ session_id' = ""
                /\ contacted' = {}
                /\ UNCHANGED <<sendVars, encCalls, sent, waits, prevDF,
                               encAtFailure, dfRun, cbInvoked>>
           ELSE /\ method' = "commit_files"
                /\ returned' = NoResult
                /\ session_id' = IF uploaded THEN "s1" ELSE ""
                /\ contacted' =
                      (IF NeedsUploadSession(files)
                       THEN {"encrypt", "api/upload/session"} ELSE {})
                      \cup (IF created /\ HasContent(files)
                            THEN {"api/upload/file"} ELSE {})
                      \cup (IF created /\ ~uploaded
                            THEN {"api/upload/cancel"} ELSE {})
                /\ IF uploaded THEN BeginComplete(op) ELSE BeginSend(op)
        /\ UNCHANGED <<toolVars, cliVars>>

commit_files_call ==
    /\ safe.step = "none"
    /\ calls < MaxCalls
    /\ calls' = calls + 1
    /\ UNCHANGED safe
    /\ \E files \in FileLists, repository \in RepositoryArgs,
          branch \in BranchArgs, sessionOK \in BOOLEAN, uploadOK \in BOOLEAN :
        CommitFiles(files, repository, branch, sessionOK, uploadOK)

\* _complete_upload_session: one POST, no retry; its body is returned whatever
\* the status, anything that raises gives a failure
complete_upload_session(R) ==
    /\ pc = "complete"
    /\ \E r \in R :
        /\ response' = r
        /\ result' = IF r.kind = "exception" \/ r.json = "invalid"
                     THEN Result("false", "NONE", "exception")
                     ELSE Result(r.isSuccessful, r.errorCode, "server")
    /\ contacted' = contacted \cup {"encrypt", "api/upload/complete"}
    /\ pc' = "done"
    /\ UNCHANGED <<operation, max_retries, attempt, consecutive_failures,
                   last_decryption_failed, encrypted_operation, delay>>
    /\ UNCHANGED <<encCalls, sent, waits, prevDF, encAtFailure, dfRun, cbInvoked>>
    /\ UNCHANGED <<toolVars, callerVars>>
    /\ UNCHANGED cliVars

commit_files_return ==
    IF _check_success(result)
    THEN Return("commit_files", current_repository, current_branch,
                Append(session_history,
                       [operation |-> "commit",
                        repository |-> operation.Repository,
                        branch |-> operation.Branch]),
                Result("true", "NONE", "Files committed successfully"))
    ELSE Return("commit_files", current_repository, current_branch,
                session_history, Result("false", "NONE", "commit_files"))

\* ---- create_branch ----
create_branch_call ==
    \E branch_name \in BranchNames, from_branch \in BranchArgs,
       repository \in RepositoryArgs :
        Call("create_branch", Args(repository, from_branch, branch_name, "", <<>>),
             Operation("branch", Or(repository, current_repository),
                       Or(from_branch, current_branch), branch_name))

create_branch_return ==
    IF _check_success(result)
    THEN Return("create_branch", current_repository, current_branch,
                Append(session_history,
                       [operation |-> "create_branch",
                        repository |-> operation.Repository,
                        branch_name |-> operation.BranchName,
                        source_branch |-> operation.Branch]),
                result)
    ELSE Return("create_branch", current_repository, current_branch,
                session_history, result)

\* ---- switch_branch ----
switch_branch_call ==
    \E branch_name \in BranchNames, repository \in RepositoryArgs :
        Call("switch_branch", Args(repository, "", branch_name, "", <<>>),
             Operation("checkout", Or(repository, current_repository),
                       "<absent>", branch_name))

SwitchedLatePrevious(cur, history, repo, branch_name) ==
    [branch |-> branch_name,
     history |-> Append(history,
                        [operation |-> "switch_branch",
                         repository |-> repo,
                         branch_name |-> branch_name,
                         previous_branch |-> branch_name])]

\* the fields after a successful checkout
Switched(cur, history, repo, branch_name) ==
    [branch |-> branch_name,
     history |-> Append(history,
                        [operation |-> "switch_branch",
                         repository |-> repo,
                         branch_name |-> branch_name,
                         previous_branch |-> cur])]

switch_branch_return ==
    IF _check_success(result)
    THEN LET new == Switched(current_branch, session_history,
                             operation.Repository, args.branch_name)
         IN  Return("switch_branch", current_repository, new.branch,
                    new.history, result)
    ELSE Return("switch_branch", current_repository, current_branch,
                session_history, result)

\* ---- read_file ----
read_file_call ==
    \E repository \in RepositoryArgs, branch \in BranchArgs :
        Call("read_file", Args(repository, branch, "", "", <<>>),
             Operation("read", Or(repository, current_repository),
                       Or(branch, current_branch), "<absent>"))

read_file_return ==
    IF _check_success(result)
    THEN Return("read_file", current_repository, current_branch,
                Append(session_history,
                       [operation |-> "read_file",
                        repository |-> operation.Repository,
                        branch |-> operation.Branch]),
                Result("true", "NONE", "read_file"))
    ELSE Return("read_file", current_repository, current_branch,
                session_history, Result("false", "NONE", "read_file"))

\* ---- revert_to_commit ----
revert_to_commit_call ==
    \E commit_sha \in CommitArgs, repository \in RepositoryArgs,
       branch \in BranchArgs :
        Call("revert_to_commit", Args(repository, branch, "", commit_sha, <<>>),
             Operation("revert", Or(repository, current_repository),
                       Or(branch, current_branch), "<absent>"))

revert_to_commit_return ==
    IF _check_success(result)
    THEN Return("revert_to_commit", current_repository, current_branch,
                Append(session_history,
                       [operation |-> "revert",
                        repository |-> operation.Repository,
                        branch |-> operation.Branch,
                        target_commit |-> args.commit]),
                result)
    ELSE Return("revert_to_commit", current_repository, current_branch,
                session_history, result)

ParsingReturnAppendFirst(m, entry) ==
    \E parsable \in BOOLEAN :
        IF _check_success(result)
        THEN Return(m, current_repository, current_branch,
                    Append(session_history, entry),
                    IF parsable THEN Result("true", "NONE", m)
                    ELSE Result("false", "NONE", "Failed to parse"))
        ELSE Return(m, current_repository, current_branch, session_history,
                    result)

\* ---- the methods that parse a JSON document out of result["commitSha"] ----
\* parsable: json.loads of that document succeeds
ParsingReturn(m, entry) ==
    \E parsable \in BOOLEAN :
        IF _check_success(result) /\ parsable
        THEN Return(m, current_repository, current_branch,
                    Append(session_history, entry), Result("true", "NONE", m))
        ELSE IF _check_success(result)
        THEN Return(m, current_repository, current_branch, session_history,
                    Result("false", "NONE", "Failed to parse"))
        ELSE Return(m, current_repository, current_branch, session_history,
                    result)

\* get_commit_history: the page asked for
SkipArgs == {0, 5}
TakeArgs == {-1, 50, 100, 101}

DigitChars == <<"0", "1", "2", "3", "4", "5", "6", "7", "8", "9">>

\* f"{n}" of an integer: its decimal digits, one character each
RECURSIVE Str(_)
Str(n) ==
    IF n < 0 THEN <<"-">> \o Str(0 - n)
    ELSE IF n < 10 THEN <<DigitChars[n + 1]>>
    ELSE Str(n \div 10) \o <<DigitChars[(n % 10) + 1]>>

LimitTakeNone(take) == take

\* take = min(take, 100)
LimitTake(take) == Min(take, 100)

\* f"{skip},{take}"
Pagination(skip, take) == Str(skip) \o <<",">> \o Str(take)

get_commit_history_call ==
    \E repository \in RepositoryArgs, branch \in BranchArgs,
       skip \in SkipArgs, take \in TakeArgs :
        Call("get_commit_history",
             [repository |-> repository, branch |-> branch, branch_name |-> "",
              commit |-> "", files |-> <<>>, skip |-> skip, take |-> take],
             [Operation |-> "history",
              Repository |-> Or(repository, current_repository),
              Branch |-> Or(branch, current_branch),
              BranchName |-> "<absent>",
              CommitMessage |-> Pagination(skip, LimitTake(take))])

get_commit_history_return ==
    ParsingReturn("get_commit_history",
                  [operation |-> "get_history",
                   repository |-> operation.Repository,
                   branch |-> operation.Branch])

get_file_history_call ==
    \E repository \in RepositoryArgs, branch \in BranchArgs :
        Call("get_file_history", Args(repository, branch, "", "", <<>>),
             Operation("file-history", Or(repository, current_repository),
                       Or(branch, current_branch), "<absent>"))

get_file_history_return ==
    ParsingReturn("get_file_history",
                  [operation |-> "get_file_history",
                   repository |-> operation.Repository,
                   branch |-> operation.Branch])

compare_commits_call ==
    \E from_commit \in CommitArgs, repository \in RepositoryArgs :
        Call("compare_commits", Args(repository, "", "", from_commit, <<>>),
             Operation("diff", Or(repository, current_repository),
                       from_commit, "<absent>"))

compare_commits_return ==
    ParsingReturn("compare_commits",
                  [operation |-> "compare_commits",
                   repository |-> operation.Repository,
                   from_commit |-> args.commit,
                   to_commit |-> "HEAD"])

show_commit_details_call ==
    \E repository \in RepositoryArgs :
        Call("show_commit_details", Args(repository, "", "", "", <<>>),
             Operation("show", Or(repository, current_repository),
                       "<absent>", "<absent>"))

show_commit_details_return ==
    ParsingReturn("show_commit_details",
                  [operation |-> "show_commit",
                   repository |-> operation.Repository,
                   commit_sha |-> "HEAD"])

\* ---- merge_branch ----
merge_branch_call ==
    \E target_branch \in BranchNames, source_branch \in {"dev"},
       repository \in RepositoryArgs :
        Call("merge_branch", Args(repository, target_branch, source_branch, "", <<>>),
             Operation("merge", Or(repository, current_repository),
                       target_branch, source_branch))

merge_branch_return ==
    IF _check_success(result)
    THEN Return("merge_branch", current_repository, current_branch,
                Append(session_history,
                       [operation |-> "merge_branch",
                        repository |-> operation.Repository,
                        target_branch |-> operation.Branch,
                        source_branch |-> operation.BranchName]),
                result)
    ELSE Return("merge_branch", current_repository, current_branch,
                session_history, result)

\* ---- get_session_history ----
\* a copy of the list is returned
get_session_history ==
    /\ pc = "idle"
    /\ safe.step = "none"
    /\ returned' = [isSuccessful |-> "true", errorCode |-> "NONE",
                    origin |-> "get_session_history",
                    history |-> session_history]
    /\ UNCHANGED <<method, args, calls, session_id, safe>>
    /\ UNCHANGED <<toolVars, sendVars, ghostVars>>
    /\ UNCHANGED cliVars

----------------------------------------------------------------------------
(* A session of public calls on one tool *)

Next ==
    \/ create_repository_call
    \/ create_repository_return
    \/ commit_files_call
    \/ complete_upload_session(ToolResponses)
    \/ commit_files_return
    \/ create_branch_call
    \/ create_branch_return
    \/ switch_branch_call
    \/ switch_branch_return
    \/ read_file_call
    \/ read_file_return
    \/ revert_to_commit_call
    \/ revert_to_commit_return
    \/ get_commit_history_call
    \/ get_commit_history_return
    \/ get_file_history_call
    \/ get_file_history_return
    \/ compare_commits_call
    \/ compare_commits_return
    \/ show_commit_details_call
    \/ show_commit_details_return
    \/ merge_branch_call
    \/ merge_branch_return
    \/ get_session_history
    \/ EncryptOperation
    \/ PostOperation(ToolResponses, MaxTransient)
    \/ BackoffSleep

Spec == Init /\ [][Next]_vars

----------------------------------------------------------------------------
(* safe_code_modification: create a test branch, check it out, commit there. *)
(* Each step is a call of the public method, which runs to its return        *)
(* before the next line of safe_code_modification is executed.               *)

\* arguments safe_code_modification is called with
SafeFileLists == {<<small_file_limit>>, <<small_file_limit + 1>>}
TestBranchArgs == {"", "dev"}

\* f"agent-test-{int(datetime.utcnow().timestamp())}"
GeneratedBranchName == "agent-test-<timestamp>"

\* safe_code_modification returns value; the locals are dropped
SafeReturn(value) ==
    /\ safe' = NoSafe
    /\ returned' = value
    /\ UNCHANGED <<method, args, calls, session_id>>
    /\ UNCHANGED <<toolVars, sendVars, ghostVars>>
    /\ UNCHANGED cliVars

\* the method called by the current step has returned
StepReturned(step) ==
    /\ safe.step = step
    /\ method = "none"
    /\ pc = "idle"

\* entry, up to the call of create_branch
safe_code_modification_call ==
    /\ safe.step = "none"
    /\ calls < MaxCalls
    /\ calls' = calls + 1
    /\ \E files_to_modify \in SafeFileLists, repository \in RepositoryArgs,
          test_branch \in TestBranchArgs :
        LET repo == Or(repository, current_repository)
            original_branch == current_branch
            branch_name == Or(test_branch, GeneratedBranchName)
        IN  /\ safe' = [step |-> "create", repo |-> repo,
                        original_branch |-> original_branch,
                        branch_name |-> branch_name, files |-> files_to_modify]
            /\ Invoke("create_branch",
                      Args(repo, original_branch, branch_name, "", <<>>),
                      Operation("branch", Or(repo, current_repository),
                                Or(original_branch, current_branch), branch_name))

\* create_branch has returned: give up, or call switch_branch
safe_code_modification_switch ==
    /\ StepReturned("create")
    /\ IF ~_check_success(returned)
       THEN SafeReturn(Result("false", "NONE", "Failed to create test branch"))
       ELSE /\ safe' = [safe EXCEPT !.step = "switch"]
            /\ UNCHANGED calls
            /\ Invoke("switch_branch",
                      Args(safe.repo, "", safe.branch_name, "", <<>>),
                      Operation("checkout", Or(safe.repo, current_repository),
                                "<absent>", safe.branch_name))

safe_code_modification_commit_unchecked ==
    /\ StepReturned("switch")
    /\ safe' = [safe EXCEPT !.step = "commit"]
    /\ UNCHANGED calls
    /\ \E sessionOK \in BOOLEAN, uploadOK \in BOOLEAN :
        CommitFiles(safe.files, safe.repo, safe.branch_name, sessionOK, uploadOK)

\* switch_branch has returned: give up, or call commit_files
safe_code_modification_commit ==
    /\ StepReturned("switch")
    /\ IF ~_check_success(returned)
       THEN SafeReturn(Result("false", "NONE", "Failed to switch to test branch"))
       ELSE /\ safe' = [safe EXCEPT !.step = "commit"]
            /\ UNCHANGED calls
            /\ \E sessionOK \in BOOLEAN, uploadOK \in BOOLEAN :
                CommitFiles(safe.files, safe.repo, safe.branch_name,
                            sessionOK, uploadOK)

\* commit_files has returned: return the success, or call switch_branch to go
\* back to the original branch
safe_code_modification_rollback ==
    /\ StepReturned("commit")
    /\ IF returned.isSuccessful = "true"
       THEN SafeReturn([isSuccessful |-> "true", errorCode |-> "NONE",
                        origin |-> "safe_code_modification",
                        test_branch |-> safe.branch_name,
                        original_branch |-> safe.original_branch])
       ELSE /\ safe' = [safe EXCEPT !.step = "rollback"]
            /\ UNCHANGED calls
            /\ Invoke("switch_branch",
                      Args(safe.repo, "", safe.original_branch, "", <<>>),
                      Operation("checkout", Or(safe.repo, current_repository),
                                "<absent>", safe.original_branch))

\* the switch_branch of the rollback has returned; its result is not looked at
safe_code_modification_return ==
    /\ StepReturned("rollback")
    /\ SafeReturn([isSuccessful |-> "false", errorCode |-> "NONE",
                   origin |-> "safe_code_modification",
                   rollback_performed |-> safe.original_branch])

\* a session in which safe_code_modification is used next to
\* create_repository and switch_branch
NextSafe ==
    \/ create_repository_call
    \/ create_repository_return
    \/ switch_branch_call
    \/ safe_code_modification_call
    \/ safe_code_modification_switch
    \/ safe_code_modification_commit
    \/ safe_code_modification_rollback
    \/ safe_code_modification_return
    \/ create_branch_return
    \/ switch_branch_return
    \/ complete_upload_session(ToolResponses)
    \/ commit_files_return
    \/ EncryptOperation
    \/ PostOperation(ToolResponses, MaxTransient)
    \/ BackoffSleep

SpecSafe == Init /\ [][NextSafe]_vars

----------------------------------------------------------------------------
(* initialize: the name of the git server's agent is fetched from the token *)
(* server, the name of the client's own agent from the agent instance.      *)

\* characters str.strip() removes
Whitespace == {" ", "\n"}

\* what GET {token_server_url}/api/resourceinfo may give: a status and a body
\* (a sequence of characters), or an exception
InfoResponses ==
    {[kind |-> "http", status |-> st, text |-> txt] :
        st \in {200},
        txt \in {<<>>, <<" ", "\n">>, <<"g", "1">>, <<" ", "g", "1", "\n">>,
                 <<"g", " ", "2">>}}
    \cup {[kind |-> "http", status |-> st, text |-> <<"g", "1">>] :
            st \in {404, 500}}
    \cup {[kind |-> "exception"]}

StripNone(text) == text

\* str.strip()
RECURSIVE Strip(_)
Strip(text) ==
    IF text = <<>> THEN text
    ELSE IF Head(text) \in Whitespace THEN Strip(Tail(text))
    ELSE IF text[Len(text)] \in Whitespace
    THEN Strip(SubSeq(text, 1, Len(text) - 1))
    ELSE text

\* the name of the fall-back
DefaultAgentName == "git-client-agent"

\* the try block that reads the client's own agent name off the agent
\* instance, with its except clause
OwnAgentName(a) ==
    IF a.hexaeight_agent # "absent"
    THEN IF a.hexaeight_agent = "raises" THEN DefaultAgentName
         ELSE IF a.hexaeight_agent = "returns None" THEN ""
         ELSE "agent-1"
    ELSE IF a.agent_name # "absent" THEN a.agent_name
    ELSE IF a._clr_agent_config # "absent"
    THEN IF a._clr_agent_config = "unnamed" THEN DefaultAgentName
         ELSE a._clr_agent_config
    ELSE DefaultAgentName

\* GitMCPTool.__init__ on any of the agent instances
InitAnyAgent ==
    /\ current_repository = ""
    /\ current_branch = "master"
    /\ session_history = <<>>
    /\ agent_recreation_callback \in {"set", "unset"}
    /\ agent \in AgentInstances
    /\ git_server_agent_name = <<>>
    /\ agent_name = ""
    /\ method = "none"
    /\ args = NoArgs
    /\ calls = 0
    /\ session_id = ""
    /\ returned = NoResult
    /\ safe = NoSafe
    /\ contacted = {}
    /\ IdleLocals
    /\ CliIdle

initialize_call ==
    /\ pc = "idle"
    /\ method = "none"
    /\ method' = "initialize"
    /\ pc' = "resourceinfo"
    /\ response' = NoResponse
    /\ returned' = NoResult
    /\ UNCHANGED <<args, calls, session_id, safe>>
    /\ UNCHANGED <<operation, max_retries, attempt, consecutive_failures,
                   last_decryption_failed, encrypted_operation, delay, result>>
    /\ UNCHANGED <<toolVars, ghostVars>>
    /\ UNCHANGED cliVars

\* the GET and the handling of its answer
initialize_resourceinfo ==
    /\ pc = "resourceinfo"
    /\ \E r \in InfoResponses :
        /\ response' = r
        /\ IF r.kind = "exception" \/ r.status # 200
           THEN /\ returned' = Result("false", "NONE", "initialize")
                /\ method' = "none"
                /\ pc' = "idle"
                /\ UNCHANGED git_server_agent_name
           ELSE /\ git_server_agent_name' = Strip(r.text)
                /\ pc' = "agent_name"
                /\ UNCHANGED <<returned, method>>
    /\ UNCHANGED <<args, calls, session_id, safe>>
    /\ UNCHANGED <<operation, max_retries, attempt, consecutive_failures,
                   last_decryption_failed, encrypted_operation, delay, result>>
    /\ UNCHANGED <<current_repository, current_branch, session_history,
                   agent_recreation_callback, agent, agent_name>>
    /\ UNCHANGED ghostVars
    /\ UNCHANGED cliVars

\* the client's own agent name, and the final test of the server agent's name
initialize_agent_name ==
    /\ pc = "agent_name"
    /\ agent_name' = OwnAgentName(agent)
    /\ returned' = Result(IF git_server_agent_name = <<>> THEN "false" ELSE "true",
                          "NONE", "initialize")
    /\ method' = "none"
    /\ pc' = "idle"
    /\ UNCHANGED <<args, calls, session_id, safe>>
    /\ UNCHANGED <<operation, max_retries, attempt, consecutive_failures,
                   last_decryption_failed, encrypted_operation, delay, response,
                   result>>
    /\ UNCHANGED <<current_repository, current_branch, session_history,
                   agent_recreation_callback, agent, git_server_agent_name>>
    /\ UNCHANGED ghostVars
    /\ UNCHANGED cliVars

NextInitialize ==
    \/ initialize_call
    \/ initialize_resourceinfo
    \/ initialize_agent_name

SpecInitialize == InitAnyAgent /\ [][NextInitialize]_vars

----------------------------------------------------------------------------
(* cli/main.py: the console entry points.  One behaviour is one process.    *)

HelpFlags == {"--help", "-h", "help"}

Commands ==
    {"check-prerequisites", "license-activation",
     "create-directory-linked-to-hexaeight-license",
     "generate-parent-or-child-agent-licenses",
     "deploy-multi-ai-agent-samples",
     "setup-portable-child-agent-environment"}

\* command lines: sys.argv without the program name
ArgvInputs ==
    {<<>>}
    \cup {<<first>> \o rest :
            first \in Commands \cup HelpFlags \cup {"deploy"},
            rest \in {<<>>, <<"my-project">>, <<"my-project", "--force">>}}

HandlerElsePrerequisites(command) ==
    CASE command = "license-activation" -> "LicenseActivationCLI"
      [] command = "create-directory-linked-to-hexaeight-license"
            -> "DirectorySetupCLI"
      [] command = "generate-parent-or-child-agent-licenses"
            -> "AgentGenerationCLI"
      [] command = "deploy-multi-ai-agent-samples" -> "SampleDeploymentCLI"
      [] command = "setup-portable-child-agent-environment" -> "PortableSetupCLI"
      [] OTHER -> "PrerequisitesCLI"

\* the if/elif chain: the class whose run() the command calls, "none" in the
\* else branch
Handler(command) ==
    IF command = "check-prerequisites" THEN "PrerequisitesCLI"
    ELSE IF command = "license-activation" THEN "LicenseActivationCLI"
    ELSE IF command = "create-directory-linked-to-hexaeight-license"
    THEN "DirectorySetupCLI"
    ELSE IF command = "generate-parent-or-child-agent-licenses"
    THEN "AgentGenerationCLI"
    ELSE IF command = "deploy-multi-ai-agent-samples" THEN "SampleDeploymentCLI"
    ELSE IF command = "setup-portable-child-agent-environment"
    THEN "PortableSetupCLI"
    ELSE "none"

\* how a call of run() may end: it returns, or it raises.  SystemExit stands
\* for the exceptions that are not subclasses of Exception.
NoOutcome == [kind |-> "none", exception |-> "", code |-> -1]
HandlerOutcomes ==
    {[kind |-> "returns", exception |-> "", code |-> -1],
     [kind |-> "raises", exception |-> "KeyboardInterrupt", code |-> -1],
     [kind |-> "raises", exception |-> "Exception", code |-> -1],
     [kind |-> "raises", exception |-> "FileNotFoundError", code |-> -1],
     [kind |-> "raises", exception |-> "SystemExit", code |-> 0],
     [kind |-> "raises", exception |-> "SystemExit", code |-> 2]}

\* the exception classes of HandlerOutcomes that derive from Exception
ExceptionSubclasses == {"Exception", "FileNotFoundError"}

StatusAfterAlwaysOne(o) == 1

\* the except clauses of hexaeight_start: the status the process ends with
\* after run() raised
StatusAfter(o) ==
    IF o.exception = "KeyboardInterrupt" THEN 0
    ELSE IF o.exception \in ExceptionSubclasses THEN 1
    ELSE o.code

\* sys.exit(status)
Exit(status) ==
    /\ exit_status' = status
    /\ cli_pc' = "exited"

\* the legacy entry point
main ==
    /\ cli_pc = "shell"
    /\ \E a \in ArgvInputs : argv' = a
    /\ entry_point' = "main"
    /\ Exit(1)
    /\ UNCHANGED <<handlers_run, handler_outcome>>
    /\ UNCHANGED <<toolVars, callerVars, sendVars, ghostVars, presentationVars>>

\* hexaeight_start up to the call of run(), or to the exit before it
hexaeight_start ==
    /\ cli_pc = "shell"
    /\ entry_point' = "hexaeight_start"
    /\ \E a \in ArgvInputs :
        /\ argv' = a
        /\ IF a = <<>> \/ a[1] \in HelpFlags
           THEN Exit(1) /\ UNCHANGED handlers_run
           ELSE LET command == a[1]
                    arguments == Tail(a)
                IN  IF Handler(command) = "none"
                    THEN Exit(1) /\ UNCHANGED handlers_run
                    ELSE IF Handler(command) = "DirectorySetupCLI"
                            /\ arguments = <<>>
                    THEN Exit(1) /\ UNCHANGED handlers_run
                    ELSE /\ handlers_run' = Append(handlers_run, Handler(command))
                         /\ cli_pc' = "handler"
                         /\ UNCHANGED exit_status
    /\ UNCHANGED handler_outcome
    /\ UNCHANGED <<toolVars, callerVars, sendVars, ghostVars, presentationVars>>

\* run() returns: hexaeight_start returns
handler_returns ==
    /\ cli_pc = "handler"
    /\ handler_outcome' = [kind |-> "returns", exception |-> "", code |-> -1]
    /\ cli_pc' = "returned"
    /\ UNCHANGED <<argv, entry_point, handlers_run, exit_status>>
    /\ UNCHANGED <<toolVars, callerVars, sendVars, ghostVars, presentationVars>>

\* run() raises
handler_raises ==
    /\ cli_pc = "handler"
    /\ \E o \in HandlerOutcomes :
        /\ o.kind = "raises"
        /\ handler_outcome' = o
        /\ Exit(StatusAfter(o))
    /\ UNCHANGED <<argv, entry_point, handlers_run>>
    /\ UNCHANGED <<toolVars, callerVars, sendVars, ghostVars, presentationVars>>

NextMain ==
    \/ main
    \/ hexaeight_start
    \/ handler_returns
    \/ handler_raises

SpecMain == Init /\ [][NextMain]_vars

----------------------------------------------------------------------------
(* cli/concepts_presentation.py: ConceptsPresentationCLI.run                 *)

\* len(self._get_slides())
SlideCount == 10

\* argument lists run() is called with
RunArgs ==
    {<<>>, <<"--interactive">>, <<"--auto">>, <<"--interactive", "--auto">>,
     <<"--fast">>}

\* lines the user types at the prompt, as characters
InputLines ==
    {<<>>, <<"q">>, <<"s">>, <<"Q">>, <<" ", "s">>, <<"S", " ">>, <<"x">>}

\* interactive and not auto_advance
Prompting(a) ==
    /\ (Len(a) = 0 \/ \E i \in 1 .. Len(a) : a[i] = "--interactive")
    /\ ~\E i \in 1 .. Len(a) : a[i] = "--auto"

auto_advance(a) == \E i \in 1 .. Len(a) : a[i] = "--auto"

\* str.lower(), on the characters of InputLines
Lower(line) ==
    [i \in 1 .. Len(line) |->
        IF line[i] = "Q" THEN "q" ELSE IF line[i] = "S" THEN "s" ELSE line[i]]

NormalizeNone(line) == line

\* input(...).strip().lower()
Normalize(line) == Lower(Strip(line))

run_call ==
    /\ pres_pc = "idle"
    /\ \E a \in RunArgs : run_args' = a
    /\ pres_pc' = "show"
    /\ UNCHANGED <<slide, shown, prompts, user_input, completion>>
    /\ UNCHANGED <<toolVars, callerVars, sendVars, ghostVars, mainVars>>

\* the head of the loop body: the next slide is printed
show_slide ==
    /\ pres_pc = "show"
    /\ slide < SlideCount
    /\ slide' = slide + 1
    /\ shown' = Append(shown, slide + 1)
    /\ pres_pc' = IF Prompting(run_args) THEN "prompt"
                  ELSE IF auto_advance(run_args) THEN "sleep"
                  ELSE "show"
    /\ UNCHANGED <<run_args, prompts, user_input, completion>>
    /\ UNCHANGED <<toolVars, callerVars, sendVars, ghostVars, mainVars>>

\* input() returns a line
read_input ==
    /\ pres_pc = "prompt"
    /\ \E line \in InputLines :
        /\ user_input' = line
        /\ pres_pc' = IF Normalize(line) = <<"q">> THEN "ended"
                      ELSE IF Normalize(line) = <<"s">> THEN "complete"
                      ELSE "show"
    /\ prompts' = prompts + 1
    /\ UNCHANGED <<run_args, slide, shown, completion>>
    /\ UNCHANGED <<toolVars, callerVars, sendVars, ghostVars, mainVars>>

\* input() raises (end of file, Ctrl-C): run() is left by the exception
input_raises ==
    /\ pres_pc = "prompt"
    /\ prompts' = prompts + 1
    /\ pres_pc' = "raised"
    /\ UNCHANGED <<run_args, slide, shown, user_input, completion>>
    /\ UNCHANGED <<toolVars, callerVars, sendVars, ghostVars, mainVars>>

\* time.sleep(3)
sleep ==
    /\ pres_pc = "sleep"
    /\ pres_pc' = "show"
    /\ UNCHANGED <<run_args, slide, shown, prompts, user_input, completion>>
    /\ UNCHANGED <<toolVars, callerVars, sendVars, ghostVars, mainVars>>

\* after the loop: the completion message, and run() returns
show_completion ==
    /\ \/ pres_pc = "show" /\ slide = SlideCount
       \/ pres_pc = "complete"
    /\ completion' = TRUE
    /\ pres_pc' = "done"
    /\ UNCHANGED <<run_args, slide, shown, prompts, user_input>>
    /\ UNCHANGED <<toolVars, callerVars, sendVars, ghostVars, mainVars>>

NextPresentation ==
    \/ run_call
    \/ show_slide
    \/ read_input
    \/ input_raises
    \/ sleep
    \/ show_completion

SpecPresentation == Init /\ [][NextPresentation]_vars

----------------------------------------------------------------------------
(* Properties of the retry loop (checked under SpecSend) *)

InCall == operation.Operation # "none"

WriteOperations == {"commit", "create", "branch", "checkout"}
ReadOperations == {"read", "list"}

\* the number of attempts the documentation grants an operation type
Budget(operation_type) ==
    IF operation_type \in ReadOperations THEN 3
    ELSE IF operation_type \in WriteOperations THEN 10
    ELSE 1

\* the attempt failed and the answer names an error code (a non-200 answer
\* without the key counts as the code UNKNOWN, as does a failed 200 body)
FailedWithCode(r) ==
    /\ r.kind = "http"
    /\ \/ r.status # 200
       \/ r.json = "object" /\ r.isSuccessful = "false"

CodeOf(r) == IF r.errorCode = "NONE" THEN "UNKNOWN" ELSE r.errorCode

RetryableFailure(r) ==
    FailedWithCode(r) /\ CodeOf(r) \in retryable_error_codes

NonRetryableFailure(r) ==
    FailedWithCode(r) /\ CodeOf(r) \notin retryable_error_codes

SuccessfulResponse(r) ==
    /\ r.kind = "http"
    /\ r.status = 200
    /\ r.json = "object"
    /\ r.isSuccessful \in {"true", "absent"}

\* the dictionary the caller gets for the answer r
Returned(r) ==
    [isSuccessful |-> IF r.status # 200 /\ r.isSuccessful = "absent"
                      THEN "false" ELSE r.isSuccessful,
     errorCode |-> r.errorCode,
     origin |-> IF r.status = 200 THEN "server" ELSE "http"]

EncryptionFailed ==
    result.origin = "encryption" /\ result.errorCode = "ENCRYPTION_FAILED"

\* C1 as stated: one call sends at most 3 requests for read and list, at most
\* 10 for commit, create, branch and checkout, and exactly 1 for every other
\* operation type.
C1_ExactlyOneForOthers ==
    InCall =>
        /\ operation.Operation \in ReadOperations => Len(sent) <= 3
        /\ operation.Operation \in WriteOperations => Len(sent) <= 10
        /\ (pc = "done" /\ operation.Operation \notin retryable_operations)
               => Len(sent) = 1

\* C1 amended: at most 3 requests for read and list, at most 10 for commit,
\* create, branch and checkout; every other operation type sends exactly 1
\* request when the operation could be encrypted and none when the encryption
\* failed.
C1_RetryBudget ==
    InCall =>
        /\ operation.Operation \in ReadOperations => Len(sent) <= 3
        /\ operation.Operation \in WriteOperations => Len(sent) <= 10
        /\ operation.Operation \notin retryable_operations => Len(sent) <= 1
        /\ (pc = "done" /\ operation.Operation \notin retryable_operations)
               => Len(sent) = (IF EncryptionFailed THEN 0 ELSE 1)

\* a write operation that used its whole budget
C1_Witness ==
    /\ pc = "done"
    /\ operation.Operation = "commit"
    /\ Len(sent) = 10

\* C2: an attempt that receives a failure whose error code is not retryable
\* (with status 200 or not, for any operation type) returns that failure at
\* once, and no request follows it.
C2_NonRetryableNeverRetried ==
    [][ /\ NonRetryableFailure(response') =>
              /\ pc' = "done"
              /\ result' = Returned(response')
              /\ Len(sent') = attempt' + 1
        /\ NonRetryableFailure(response) => (sent' = sent \/ pc' = "idle")
      ]_vars

\* a retryable operation is stopped on its third attempt by a non-200 CONFLICT
C2_Witness ==
    /\ pc = "done"
    /\ operation.Operation = "commit"
    /\ attempt = 2
    /\ response.status = 500
    /\ response.errorCode = "CONFLICT"
    /\ result.errorCode = "CONFLICT"

\* C3: for commit, create, branch, checkout, read and list a failure with a
\* retryable code before the last attempt of the budget is followed by the
\* next attempt, and a successful answer is returned at once with no further
\* attempt.
C3_RetryUntilSuccess ==
    [][ /\ ( /\ RetryableFailure(response')
             /\ operation'.Operation \in WriteOperations \cup ReadOperations
             /\ attempt' < Budget(operation'.Operation) - 1 )
           => pc' = "sleep"
        /\ pc = "sleep" => (pc' = "attempt" /\ attempt' = attempt + 1)
        /\ SuccessfulResponse(response') =>
              /\ pc' = "done"
              /\ result' = Returned(response')
              /\ Len(sent') = attempt' + 1
        /\ pc = "done" => (sent' = sent \/ pc' = "idle")
      ]_vars

\* a branch operation succeeds on its fourth attempt
C3_Witness ==
    /\ pc = "done"
    /\ operation.Operation = "branch"
    /\ attempt = 3
    /\ SuccessfulResponse(response)
    /\ Len(sent) = 4

GitOperations == {"create", "commit", "branch", "checkout", "merge", "diff"}

\* C4 as stated: for create, commit, branch, checkout, merge and diff a first
\* attempt that fails with a retryable code is followed by another attempt.
C4_EveryOperationRetried ==
    ( /\ operation.Operation \in GitOperations
      /\ attempt = 0
      /\ RetryableFailure(response) )
    => pc = "sleep"

\* C4 amended: create, commit, branch and checkout are retried after a first
\* attempt that fails with a retryable code; merge and diff get one attempt
\* and return whatever it received.
C4_WriteOperationsRetried ==
    /\ ( /\ operation.Operation \in WriteOperations
         /\ attempt = 0
         /\ RetryableFailure(response) )
       => pc = "sleep"
    /\ ( /\ operation.Operation \in {"merge", "diff"}
         /\ response # NoResponse )
       => (pc = "done" /\ attempt = 0 /\ Len(sent) = 1)

\* the second attempt of a checkout whose first attempt timed out is under way
C4_Witness ==
    /\ operation.Operation = "checkout"
    /\ attempt = 1
    /\ pc = "encrypted"
    /\ Len(waits) = 1

ExpectedWaits == <<1, 2, 4, 8, 16, 32, 60, 60, 60>>

\* C5: the wait after 0-based attempt a is min(2^a, 60) seconds, whatever way
\* the attempt failed; the waits of a call never decrease and never exceed 60.
C5_ExponentialBackoff ==
    /\ Len(waits) <= Len(ExpectedWaits)
    /\ \A i \in 1 .. Len(waits) : waits[i] = ExpectedWaits[i]
    /\ \A i \in 1 .. Len(waits) : waits[i] <= 60
    /\ \A i \in 1 .. Len(waits) - 1 : waits[i] <= waits[i + 1]
    /\ pc = "sleep" => delay = ExpectedWaits[attempt + 1]

\* all nine waits of a budget of 10 have been slept
C5_Witness ==
    /\ Len(waits) = 9
    /\ waits[7] = 60
    /\ attempt = 9

\* C6: no ciphertext is posted twice within a call, and the attempt that
\* follows a DECRYPTION_FAILED posts a ciphertext produced after that failure.
C6_ReencryptAfterDecryptionFailure ==
    [][ /\ \A i, j \in 1 .. Len(sent') : i # j => sent'[i] # sent'[j]
        /\ (prevDF /\ Len(sent') = Len(sent) + 1)
               => sent'[Len(sent')] > encAtFailure
      ]_vars

\* an attempt after a DECRYPTION_FAILED has posted its ciphertext
C6_Witness ==
    /\ pc = "done"
    /\ prevDF
    /\ attempt >= 1
    /\ Len(sent) = attempt + 1
    /\ SuccessfulResponse(response)

\* C7: with agent_recreation_callback set, when two attempts in a row have
\* failed with DECRYPTION_FAILED and another attempt follows, the callback has
\* been invoked before it; a callback that completes resets the counter.
C7_RecreationAfterTwoFailures ==
    /\ ( /\ agent_recreation_callback = "set"
         /\ pc = "sleep"
         /\ dfRun >= 2 )
       => cbInvoked # "no"
    /\ cbInvoked = "completed" => consecutive_failures = 0

----------------------------------------------------------------------------
(* Properties of the public methods (checked under Spec) *)

Returning(m) == method = m /\ pc = "done" /\ method' = "none"

\* C8: create_repository(name) sets current_repository to name and appends
\* one create_repository entry exactly when the result is successful or has
\* errorCode REPOSITORY_EXISTS; otherwise both are unchanged; it returns the
\* result of the server operation in both cases.
C8_CreateRepositoryAdopts ==
    [][ Returning("create_repository") =>
          /\ returned' = result
          /\ IF result.isSuccessful = "true"
                \/ result.errorCode = "REPOSITORY_EXISTS"
             THEN /\ current_repository' = args.repository
                  /\ Len(session_history') = Len(session_history) + 1
                  /\ SubSeq(session_history', 1, Len(session_history))
                        = session_history
                  /\ session_history'[Len(session_history')].operation
                        = "create_repository"
                  /\ session_history'[Len(session_history')].repository
                        = args.repository
             ELSE /\ current_repository' = current_repository
                  /\ session_history' = session_history
      ]_vars

\* an existing repository has been adopted
C8_Witness ==
    /\ method = "none"
    /\ current_repository = "r1"
    /\ returned.isSuccessful = "false"
    /\ returned.errorCode = "REPOSITORY_EXISTS"
    /\ Len(session_history) = 1
    /\ session_history[1].operation = "create_repository"

\* C9: current_branch changes to b exactly when a switch_branch(b) returns
\* with a successful checkout, and the entry then appended has previous_branch
\* equal to the branch that was current before; a failed checkout leaves
\* current_branch and session_history unchanged.
C9_SwitchBranchOnSuccessOnly ==
    [][ /\ Returning("switch_branch") =>
              IF result.isSuccessful = "true"
              THEN /\ current_branch' = args.branch_name
                   /\ Len(session_history') = Len(session_history) + 1
                   /\ SubSeq(session_history', 1, Len(session_history))
                         = session_history
                   /\ session_history'[Len(session_history')].operation
                         = "switch_branch"
                   /\ session_history'[Len(session_history')].previous_branch
                         = current_branch
              ELSE /\ current_branch' = current_branch
                   /\ session_history' = session_history
        /\ current_branch' # current_branch =>
              (Returning("switch_branch") /\ result.isSuccessful = "true")
      ]_vars

\* two checkouts succeeded: master -> dev -> master
C9_Witness ==
    /\ method = "none"
    /\ current_branch = "master"
    /\ Len(session_history) = 2
    /\ session_history[2].operation = "switch_branch"
    /\ session_history[2].previous_branch = "dev"
    /\ session_history[2].branch_name = "master"

\* no switch_branch has succeeded so far
NoSwitchYet ==
    \A i \in 1 .. Len(session_history) :
        session_history[i].operation # "switch_branch"

SendsBranch == InCall /\ operation.Branch # "<absent>"

\* the methods with an optional branch argument (from_branch for create_branch)
OptionalBranchMethods ==
    {"commit_files", "create_branch", "read_file", "revert_to_commit",
     "get_commit_history", "get_file_history"}

\* C10 as stated: current_branch is "master" until a switch_branch succeeds
\* (create_repository does not change it), and until then every operation
\* called without a branch argument is sent with Branch "master".
C10_EveryOperationSendsMaster ==
    NoSwitchYet =>
        /\ current_branch = "master"
        /\ (SendsBranch /\ args.branch = "") => operation.Branch = "master"

\* C10 amended: current_branch is "master" until a switch_branch succeeds
\* (create_repository does not change it), and until then every operation
\* that has an optional branch argument and is called without it is sent with
\* Branch "master"; compare_commits, which has no branch argument, sends its
\* from_commit as Branch.
C10_DefaultBranchMaster ==
    /\ NoSwitchYet =>
          /\ current_branch = "master"
          /\ (SendsBranch /\ method \in OptionalBranchMethods /\ args.branch = "")
                => operation.Branch = "master"
    /\ (InCall /\ method = "compare_commits") => operation.Branch = args.commit

\* after create_repository a file is read without a branch argument
C10_Witness ==
    /\ Len(session_history) = 1
    /\ session_history[1].operation = "create_repository"
    /\ method = "read_file"
    /\ args.branch = ""
    /\ pc = "encrypted"
    /\ operation.Branch = "master"

----------------------------------------------------------------------------
\* a step in which commit_files is called with these files
CommitFilesCalled ==
    /\ pc = "idle"
    /\ calls' = calls + 1
    /\ args'.files # <<>>

\* C11: commit_files called with no repository argument while
\* current_repository is empty returns success=False with the message
\* 'No repository specified' at once: it uses neither the agent's encryption
\* nor any server endpoint, sends no operation, and leaves session_history
\* (and the other fields) as they were.
C11_NoRepositoryNoContact ==
    [][(CommitFilesCalled /\ args'.repository = "" /\ current_repository = "")
       => /\ method' = "none"
          /\ pc' = "idle"
          /\ returned' = Result("false", "NONE", "No repository specified")
          /\ contacted' = {}
          /\ sent' = <<>>
          /\ encCalls' = 0
          /\ session_id' = ""
          /\ session_history' = session_history
          /\ current_repository' = ""
          /\ current_branch' = current_branch]_vars

\* commit_files has returned 'No repository specified' on a tool that has no
\* current repository
C11_Witness ==
    /\ method = "none"
    /\ args.files # <<>>
    /\ args.repository = ""
    /\ current_repository = ""
    /\ returned = Result("false", "NONE", "No repository specified")
    /\ contacted = {}

----------------------------------------------------------------------------
\* C12: max_file_size_for_inline decides the transfer path of every committed
\* file: while commit_files executes the commit, a file has gone through
\* streaming upload exactly if it is larger than max_inline_size.
C12_InlineSizeDecidesPath ==
    (method = "commit_files" /\ pc \in {"attempt", "complete"})
    => \A i \in 1 .. Len(args.files) :
          Streamed(args.files, i, session_id)
          <=> args.files[i] > max_inline_size

----------------------------------------------------------------------------
\* C13: when safe_code_modification returns after a failed commit, reporting
\* rollback_performed 'Switched back to <original>', current_branch is the
\* branch that was current when safe_code_modification was called.
C13_RollbackRestoresBranch ==
    [][(safe.step = "rollback" /\ safe'.step = "none")
       => /\ returned'.rollback_performed = safe.original_branch
          /\ current_branch' = safe.original_branch]_vars

----------------------------------------------------------------------------
\* the most recent entry of session_history is e
LastEntryIs(e) ==
    /\ session_history # <<>>
    /\ session_history[Len(session_history)] = e

\* C14: safe_code_modification goes create test branch, checkout, commit.
\* Its first request is the branch creation from the branch current at call
\* time; a checkout is requested only after the creation succeeded (it is the
\* latest entry of session_history); the commit is started only after the
\* checkout succeeded (current_branch is the test branch, the checkout is the
\* latest entry); a return after a failed creation or checkout reports a
\* failure with current_branch unchanged; a return after the commit reports
\* success with current_branch the test branch and original_branch the
\* branch current at call time.
C14_StepsInOrder ==
    [][/\ (safe.step = "none" /\ safe'.step # "none")
          => /\ safe'.step = "create"
             /\ safe'.original_branch = current_branch
             /\ operation'.Operation = "branch"
             /\ operation'.BranchName = safe'.branch_name
             /\ operation'.Branch = current_branch
       /\ (safe'.step = "switch" /\ safe.step # "switch")
          => /\ safe.step = "create"
             /\ operation'.Operation = "checkout"
             /\ operation'.BranchName = safe.branch_name
             /\ current_branch = safe.original_branch
             /\ LastEntryIs([operation |-> "create_branch",
                             repository |-> safe.repo,
                             branch_name |-> safe.branch_name,
                             source_branch |-> safe.original_branch])
       /\ (safe'.step = "commit" /\ safe.step # "commit")
          => /\ safe.step = "switch"
             /\ args'.files = safe.files
             /\ args'.branch = safe.branch_name
             /\ current_branch = safe.branch_name
             /\ LastEntryIs([operation |-> "switch_branch",
                             repository |-> safe.repo,
                             branch_name |-> safe.branch_name,
                             previous_branch |-> safe.original_branch])
       /\ (safe'.step = "rollback" /\ safe.step # "rollback")
          => /\ safe.step = "commit"
             /\ returned.isSuccessful # "true"
       /\ (safe.step \in {"create", "switch"} /\ safe'.step = "none")
          => /\ returned'.isSuccessful = "false"
             /\ current_branch' = safe.original_branch
             /\ sent' = <<>>
       /\ (safe.step = "commit" /\ safe'.step = "none")
          => /\ returned'.isSuccessful = "true"
             /\ returned'.original_branch = safe.original_branch
             /\ returned'.test_branch = safe.branch_name
             /\ current_branch' = safe.branch_name
             /\ LastEntryIs([operation |-> "commit",
                             repository |-> safe.repo,
                             branch |-> safe.branch_name])]_vars

\* safe_code_modification has returned success from a branch other than the
\* test branch
C14_Witness ==
    /\ safe.step = "none"
    /\ method = "none"
    /\ returned.origin = "safe_code_modification"
    /\ returned.isSuccessful = "true"
    /\ returned.original_branch # returned.test_branch
    /\ current_branch = returned.test_branch
    /\ Len(session_history) >= 3

----------------------------------------------------------------------------
\* the integer written by a string of decimal digits with an optional sign
RECURSIVE Digits(_)
Digits(str) ==
    IF str = <<>> THEN 0
    ELSE Digits(SubSeq(str, 1, Len(str) - 1)) * 10
         + (CHOOSE d \in 0 .. 9 : DigitChars[d + 1] = str[Len(str)])

IsNumeral(str) ==
    LET digits == IF str # <<>> /\ str[1] = "-" THEN Tail(str) ELSE str
    IN  /\ digits # <<>>
        /\ \A i \in 1 .. Len(digits) :
              \E d \in 0 .. 9 : DigitChars[d + 1] = digits[i]

Value(str) ==
    IF str[1] = "-" THEN 0 - Digits(Tail(str)) ELSE Digits(str)

\* the position of the only comma of str, 0 if there is not exactly one
CommaAt(str) ==
    LET commas == {i \in 1 .. Len(str) : str[i] = ","}
    IN  IF Cardinality(commas) = 1 THEN CHOOSE i \in commas : TRUE ELSE 0

\* C15: the pagination string get_commit_history sends reads
\* '<skip>,<count>' where count is min(take, 100), so never more than 100.
C15_TakeCappedAt100 ==
    (method = "get_commit_history" /\ pc # "idle")
    => LET str == operation.CommitMessage
           c == CommaAt(str)
           first == SubSeq(str, 1, c - 1)
           second == SubSeq(str, c + 1, Len(str))
       IN  /\ c > 0
           /\ IsNumeral(first)
           /\ IsNumeral(second)
           /\ Value(first) = args.skip
           /\ Value(second) = (IF args.take < 100 THEN args.take ELSE 100)
           /\ Value(second) <= 100

\* a request for 101 commits from the sixth on is sent as "5,100"
C15_Witness ==
    /\ method = "get_commit_history"
    /\ args.skip = 5
    /\ args.take = 101
    /\ operation.CommitMessage = <<"5", ",", "1", "0", "0">>
    /\ sent # <<>>

----------------------------------------------------------------------------
\* the step is the return of a public method that reports success
\* (create_repository: also that the repository exists already)
ReturnsSuccess ==
    /\ method # "none"
    /\ pc = "done"
    /\ method' = "none"
    /\ \/ returned'.isSuccessful = "true"
       \/ /\ method = "create_repository"
          /\ returned'.errorCode = "REPOSITORY_EXISTS"

\* C16: session_history is append-only.  A step never removes, changes or
\* reorders the entries present; it appends exactly one entry when it is the
\* return of an operation that succeeded (create_repository: or found the
\* repository existing), and none in every other case: a failure, an early
\* return, a payload that could not be parsed.
C16_HistoryAppendOnly ==
    [][/\ Len(session_history') >= Len(session_history)
       /\ SubSeq(session_history', 1, Len(session_history)) = session_history
       /\ IF ReturnsSuccess
          THEN Len(session_history') = Len(session_history) + 1
          ELSE session_history' = session_history]_vars

\* the creation of the repository was logged, and a later request whose
\* payload could not be parsed left the log alone
C16_Witness ==
    /\ Len(session_history) = 1
    /\ session_history[1].operation = "create_repository"
    /\ method = "none"
    /\ returned.origin = "Failed to parse"

----------------------------------------------------------------------------
\* text consists of white space only
Blank(text) == \A i \in 1 .. Len(text) : text[i] \in Whitespace

\* name is text without its leading and trailing white space
IsTrimmed(name, text) ==
    \E i, j \in 1 .. Len(text) :
        /\ name = SubSeq(text, i, j)
        /\ text[i] \notin Whitespace
        /\ text[j] \notin Whitespace
        /\ \A k \in 1 .. Len(text) : (k < i \/ k > j) => text[k] \in Whitespace

\* the agent instance gives no name: it has none of the attributes, or
\* asking it raises
NoOwnName(a) ==
    \/ a.hexaeight_agent = "raises"
    \/ /\ a.hexaeight_agent = "absent"
       /\ a.agent_name = "absent"
       /\ a._clr_agent_config \in {"absent", "unnamed"}

\* C17: initialize returns True exactly if /api/resourceinfo answered 200
\* with a body that is not blank, and git_server_agent_name is then the body
\* without its surrounding white space; a non-200 status, a blank body or an
\* exception of the request give False.  Whether the agent instance gives its
\* own name has no part in the value returned: where it gives none,
\* agent_name is 'git-client-agent', and otherwise what the instance gave.
C17_InitializeResult ==
    [][(method = "initialize" /\ method' = "none")
       => LET r == response'
              answered == r.kind = "http" /\ r.status = 200
          IN  /\ returned'.isSuccessful \in {"true", "false"}
              /\ returned'.isSuccessful = "true"
                 <=> (answered /\ ~Blank(r.text))
              /\ returned'.isSuccessful = "true"
                 => IsTrimmed(git_server_agent_name', r.text)
              /\ (answered /\ NoOwnName(agent))
                 => agent_name' = "git-client-agent"
              /\ (answered /\ ~NoOwnName(agent))
                 => agent_name' \in {"agent-1", "agent-2", "agent-3", ""}]_vars

\* initialize has returned True on an agent instance whose get_agent_name()
\* raises, after a body with white space around the name
C17_Witness ==
    /\ method = "none"
    /\ returned = Result("true", "NONE", "initialize")
    /\ response.text = <<" ", "g", "1", "\n">>
    /\ git_server_agent_name = <<"g", "1">>
    /\ agent.hexaeight_agent = "raises"
    /\ agent_name = "git-client-agent"

----------------------------------------------------------------------------
\* the documented commands and the handler class of each
CommandTable ==
    [c \in Commands |->
        CASE c = "check-prerequisites" -> "PrerequisitesCLI"
          [] c = "license-activation" -> "LicenseActivationCLI"
          [] c = "create-directory-linked-to-hexaeight-license"
                -> "DirectorySetupCLI"
          [] c = "generate-parent-or-child-agent-licenses"
                -> "AgentGenerationCLI"
          [] c = "deploy-multi-ai-agent-samples" -> "SampleDeploymentCLI"
          [] c = "setup-portable-child-agent-environment" -> "PortableSetupCLI"]

\* the command line names a command and gives it what it needs
RunsHandler(a) ==
    /\ a # <<>>
    /\ a[1] \in Commands
    /\ ~(a[1] = "create-directory-linked-to-hexaeight-license" /\ Len(a) = 1)

\* C18: hexaeight_start runs at most one handler, the one of the command
\* given, and the six commands have six different handlers; without a
\* command, with a help flag, with an unknown command, or with
\* create-directory-linked-to-hexaeight-license and no directory name, it
\* runs no handler and exits with status 1.
C18_OneHandlerPerCommand ==
    /\ Len(handlers_run) <= 1
    /\ Cardinality({Handler(c) : c \in Commands}) = 6
    /\ entry_point = "hexaeight_start"
       => IF RunsHandler(argv)
          THEN handlers_run = <<CommandTable[argv[1]]>>
          ELSE /\ handlers_run = <<>>
               /\ cli_pc = "exited"
               /\ exit_status = 1

\* the directory command has run its handler, and only that one
C18_Witness ==
    /\ entry_point = "hexaeight_start"
    /\ argv = <<"create-directory-linked-to-hexaeight-license", "my-project">>
    /\ handlers_run = <<"DirectorySetupCLI">>
    /\ cli_pc = "returned"

----------------------------------------------------------------------------
\* the legacy entry point exits with status 1 and runs no handler
LegacyMainExits ==
    entry_point = "main"
    => /\ cli_pc = "exited"
       /\ exit_status = 1
       /\ handlers_run = <<>>
       /\ handler_outcome = NoOutcome

\* C19 as stated: after the handler has ended, hexaeight_start has returned
\* normally if the handler completed, has exited with status 0 if it raised
\* KeyboardInterrupt, and has exited with status 1 if it raised any other
\* exception; main always exits with status 1 and runs no handler.
C19_ExitStatusAnyException ==
    /\ LegacyMainExits
    /\ (entry_point = "hexaeight_start" /\ handler_outcome.kind = "returns")
       => (cli_pc = "returned" /\ exit_status = -1)
    /\ (entry_point = "hexaeight_start" /\ handler_outcome.kind = "raises")
       => /\ cli_pc = "exited"
          /\ exit_status =
                IF handler_outcome.exception = "KeyboardInterrupt" THEN 0 ELSE 1

\* C19, amended: status 1 follows the exceptions that derive from Exception;
\* a SystemExit raised by the handler is not caught and ends the process with
\* its own status.
C19_ExitStatus ==
    /\ LegacyMainExits
    /\ (entry_point = "hexaeight_start" /\ handler_outcome.kind = "returns")
       => (cli_pc = "returned" /\ exit_status = -1)
    /\ (entry_point = "hexaeight_start" /\ handler_outcome.kind = "raises")
       => /\ cli_pc = "exited"
          /\ handler_outcome.exception = "KeyboardInterrupt" => exit_status = 0
          /\ handler_outcome.exception \in {"Exception", "FileNotFoundError"}
             => exit_status = 1
          /\ handler_outcome.exception = "SystemExit"
             => exit_status = handler_outcome.code

\* a handler was interrupted by the user and the process exited with 0
C19_Witness ==
    /\ entry_point = "hexaeight_start"
    /\ handlers_run = <<"LicenseActivationCLI">>
    /\ handler_outcome.exception = "KeyboardInterrupt"
    /\ cli_pc = "exited"
    /\ exit_status = 0

----------------------------------------------------------------------------
\* the slides shown so far are the first ones, in order, each once, and no
\* slide was prompted for twice
SlidesInOrder ==
    /\ Len(shown) <= SlideCount
    /\ \A i \in 1 .. Len(shown) : shown[i] = i
    /\ slide = Len(shown)
    /\ prompts <= Len(shown)
    /\ pres_pc = "ended" => ~completion

\* the step reads a line at the prompt
ReadsLine ==
    /\ pres_pc = "prompt"
    /\ prompts' = prompts + 1
    /\ pres_pc' # "raised"

\* what follows the line: the next slide (after the last one, the completion
\* message), the end without completion message, or the completion message
\* with no slide in between
Advances == pres_pc' = "show" /\ shown' = shown /\ ~completion'
Quits == pres_pc' = "ended" /\ shown' = shown /\ ~completion'
Skips == pres_pc' = "complete" /\ shown' = shown

\* nothing but the completion message follows an 's'
SkipCompletes ==
    pres_pc = "complete" => (pres_pc' = "done" /\ completion' /\ shown' = shown)

\* C20 as stated: slides in order, each at most once, at most one prompt per
\* slide; a line 'q' ends the presentation without completion message, a
\* line 's' goes to the completion message without a further slide, and any
\* other line advances.
C20_AnyOtherInputAdvances ==
    [][/\ SlidesInOrder'
       /\ SkipCompletes
       /\ ReadsLine
          => IF user_input' = <<"q">> THEN Quits
             ELSE IF user_input' = <<"s">> THEN Skips
             ELSE Advances]_vars

\* the line reads c once the white space around it is dropped and capitals
\* are written small
Typed(line, c) ==
    \E t \in {<<"q">>, <<"Q">>, <<"s">>, <<"S">>} :
        /\ IsTrimmed(t, line)
        /\ t[1] \in (IF c = "q" THEN {"q", "Q"} ELSE {"s", "S"})

\* C20, amended: the line is compared after strip() and lower(): 'q' or 'Q',
\* with or without white space around it, ends the presentation; 's' or 'S'
\* likewise skips; every other line advances.
C20_PresentationOrder ==
    [][/\ SlidesInOrder'
       /\ SkipCompletes
       /\ ReadsLine
          => IF Typed(user_input', "q") THEN Quits
             ELSE IF Typed(user_input', "s") THEN Skips
             ELSE Advances]_vars

\* the user went through three slides and left with a capital Q
C20_Witness ==
    /\ Prompting(run_args)
    /\ shown = <<1, 2, 3>>
    /\ prompts = 3
    /\ user_input = <<"Q">>
    /\ pres_pc = "ended"
    /\ ~completion

====
